---- MODULE Spec2Model ----
(***************************************************************************)
(* Model of the parallel agent orchestrator:                               *)
(*   - AgentIsolation (packages/web/server/lib/agent-isolation.js),        *)
(*   - AgentMessenger and AgentRegistry                                    *)
(*     (packages/web/server/lib/agent-messenger.js).                       *)
(* Every async method is cut at its awaits: one action is the synchronous  *)
(* run from one await (or the call) to the next.                           *)
(***************************************************************************)
EXTENDS Integers, Sequences, FiniteSets, TLC

\* ---------------------------------------------------------------------
\* Program constants
\* ---------------------------------------------------------------------
MAX_CONCURRENT_AGENTS == 10
MAX_QUEUE_SIZE == 1000
MAX_REGISTRY_SIZE == 1000
maxAge == 86400000
MAX_RETRIES == 3
AGENT_MEMORY_LIMIT_MB == 512

CRITICAL == 0
HIGH == 1
NORMAL == 2
LOW == 3

PENDING == "pending"
DELIVERED == "delivered"
FAILED == "failed"
RETRYING == "retrying"

VALID_STATUSES == {"pending", "active", "completed", "failed", "terminating"}

\* ---------------------------------------------------------------------
\* Bounds of the model
\* ---------------------------------------------------------------------
MaxSpawnCalls == 11
MaxEnded == 1
MaxCapacityErrors == 1
MaxMsgs == 2
MaxMarks == 1
MaxRestarts == 1
MaxAgents == 1
MaxWorkers == 1
MaxCapDeliveries == 1
MaxErrors == 1
MaxSendCalls == 2
MaxParticipants == 2
MaxParallelInput == 11
MaxSubmits == 2
MaxPruneIds == 2
MaxBroadcastAgents == 2

VARIABLES
  \* AgentIsolation
  awaitingWorktree,   \* spawn calls past the capacity check, awaiting spawnWorktreeAgent
  nextAgent,          \* number of agent ids handed out by spawnWorktreeAgent
  starting,           \* agent ids whose call awaits startAgentProcess
  activeProcesses,    \* keys of this.activeProcesses
  capacityErrors,     \* spawn calls rejected with the capacity error
  resourceMonitors,   \* keys of this.resourceMonitors
  timeoutHandles,     \* agent ids whose wall-clock timer is armed
  spawned,            \* agent ids whose child has its exit and error handlers
  exitEvent,          \* history: the exit event handled for each agent ("none": not yet)
  errorEvents,        \* history: error events handled per agent
  completeCalls,      \* history: completeAgent calls per agent
  failCalls,          \* history: failAgent calls per agent
  termInFlight,       \* <<id, reason>> of the terminateAgent calls awaiting the service
  shutdownRequested,  \* history: agent ids the service was asked to terminate with reason shutdown
  termSucceeded,      \* history: a terminateAgent call for the agent returned success
  notFoundAfterSuccess, \* history: a client call after that returned not_found
  sampling,           \* agent ids with a checkResources run awaiting getProcessStats
  cleanupPc,          \* cleanupAll: "idle", "loop" (awaiting a terminateAgent), "done"
  cleanupIds,         \* cleanupAll: the agentIds it took
  cleanupLeft,        \* cleanupAll: ids its first loop has not reached yet
  cleaned,            \* cleanupAll: the count it returned
  stdin,              \* childProcess.stdin of each agent: "none" (null), "open", "closed"
  stdinLines,         \* history: newline-terminated lines that reached each child's stdin
  messageSent,        \* history: agent:message-sent events per agent
  sendErrors,         \* history: <<id, error>> of the sendToAgent calls that threw
  sendCalls,          \* number of sendToAgent calls made
  \* AgentMessenger
  queueOrder,         \* keys of this.messageQueues, in insertion order
  queues,             \* queue key -> the queue array (message ids)
  status,             \* message.status of each message object ("none": no object)
  retryCount,         \* message.retryCount
  priority,           \* message.priority
  qkey,               \* getQueueKey(message.targetAgentId, message.worktree)
  file,               \* the persisted file of each message: NoFile or its content
  retryTimers,        \* keys of this.retryTimers
  isProcessing,       \* this.isProcessing
  pc,                 \* the await at which processQueue is suspended ("idle": not running)
  cur,                \* processQueue: the message of the delivery attempt
  iterIdx,            \* processQueue: position of the Map iterator in queueOrder
  processed,          \* processQueue: the local flag
  sendsInFlight,      \* send calls awaiting persistMessage
  marks,              \* markDelivered/markFailed calls: the await each is suspended at
  nextMsg,            \* next message id; ids are handed out in enqueue order
  markCalls,          \* number of markDelivered/markFailed calls made
  restarts,           \* number of restarts of the bus
  attempts,           \* history: delivery attempts started per message
  okAttempts,         \* history: messages with an attempt that reported delivered
  failedEvents,       \* history: message:failed events emitted by processQueue per message
  orphans,            \* processQueue activations suspended in an await since before a clearAllQueues
  \* AgentRegistry
  agents,             \* this.agents: worker id -> status of its record ("absent": no record)
  isDirty,            \* this.isDirty
  persistPc,          \* the await at which persistToDisk is suspended ("idle": not running)
  persistData,        \* persistToDisk: the entries it took for writeFile
  registryFile,       \* content of the registry file
  registeredEvents,   \* history: ids with an agent:registered event of this instance
  lastEvent,          \* history: the status carried by the latest event for each id
  \* Coordinator
  barrier,            \* the barrier: "none", "waiting", "complete" or "timeout"
  expected,           \* the barrier's expected participants
  arrived,            \* the barrier's arrived set
  election,           \* the election: "none", "in_progress" or "completed"
  candidates,         \* the election's candidate set
  votes,              \* voter -> the candidate of its recorded vote (NoVote: none)
  winner,             \* the winner the election resolved with
  rejected,           \* history: voters with a rejected castVote
  \* Consolidation
  consStatus,         \* status of the consolidation ("none": not created)
  agentStatus,        \* status of each participant: "completed" or "failed"
  diffs,              \* the hunk headers of each participant's diff against the base
  sameLineConflicts,  \* conflictAnalysis.sameLineConflicts
  \* Spawn dialog
  config,             \* the dialog's AgentSpawnConfig
  submitErrors,       \* keys of the dialog's submitErrors
  spawnFetches,       \* history: POST /api/agents/spawn requests issued
  submits,            \* history: handleSpawn calls
  \* Registry at its size ceiling
  records,            \* this.agents: status and endTime of each record (NoRecord: none)
  now,                \* Date.now()
  lastPruned,         \* history: ids of the agent:pruned events of the last register call
  \* Broadcast
  workers,            \* the registry's records: worktree and status (NoWorker: none)
  queuedKeys,         \* history: (worktree, id, target) of the messages the last broadcast queued
  returned            \* history: targets of the messages the last broadcast returned

procVars == <<activeProcesses, resourceMonitors, timeoutHandles, spawned>>

endVars == <<exitEvent, errorEvents, completeCalls, failCalls>>

termVars == <<termInFlight, shutdownRequested, termSucceeded, notFoundAfterSuccess>>

cleanupVars == <<cleanupPc, cleanupIds, cleanupLeft, cleaned>>

ioVars == <<stdin, stdinLines, messageSent, sendErrors, sendCalls>>

isoVars == <<awaitingWorktree, nextAgent, starting, capacityErrors,
             procVars, endVars, termVars, sampling, cleanupVars, ioVars>>

loopVars == <<orphans>>

msgVars == <<queueOrder, queues, status, retryCount, priority, qkey, file, retryTimers,
             isProcessing, pc, cur, iterIdx, processed, sendsInFlight, marks, nextMsg,
             markCalls, restarts, attempts, okAttempts, failedEvents, loopVars>>

eventVars == <<registeredEvents, lastEvent>>

regVars == <<agents, isDirty, persistPc, persistData, registryFile, eventVars>>

coordVars == <<barrier, expected, arrived, election, candidates, votes, winner, rejected>>

consVars == <<consStatus, agentStatus, diffs, sameLineConflicts>>

uiVars == <<config, submitErrors, spawnFetches, submits>>

pruneVars == <<records, now, lastPruned>>

bcastVars == <<workers, queuedKeys, returned>>

vars == <<awaitingWorktree, nextAgent, starting, capacityErrors,
          activeProcesses, resourceMonitors, timeoutHandles, spawned,
          exitEvent, errorEvents, completeCalls, failCalls,
          termInFlight, shutdownRequested, termSucceeded, notFoundAfterSuccess,
          sampling, cleanupPc, cleanupIds, cleanupLeft, cleaned,
          stdin, stdinLines, messageSent, sendErrors, sendCalls,
          queueOrder, queues, status, retryCount, priority, qkey, file, retryTimers,
          isProcessing, pc, cur, iterIdx, processed, sendsInFlight, marks, nextMsg,
          markCalls, restarts, attempts, okAttempts, failedEvents, orphans,
          agents, isDirty, persistPc, persistData, registryFile,
          registeredEvents, lastEvent,
          barrier, expected, arrived, election, candidates, votes, winner, rejected,
          consStatus, agentStatus, diffs, sameLineConflicts,
          config, submitErrors, spawnFetches, submits,
          records, now, lastPruned,
          workers, queuedKeys, returned>>

\* =====================================================================
\* AgentIsolation
\* =====================================================================
AgentIds == 1..MaxSpawnCalls

\* the reasons terminateAgent is called with
USER_INITIATED == "user_initiated"
TIMEOUT == "timeout"
MEMORY_LIMIT_EXCEEDED_Short == "memory_limit"

MEMORY_LIMIT_EXCEEDED == "memory_limit_exceeded"
SHUTDOWN == "shutdown"
Reasons == {USER_INITIATED, TIMEOUT, MEMORY_LIMIT_EXCEEDED, SHUTDOWN}

\* (code, signal) of the exit event: code 0; a non-zero code; code null
\* with a signal
ExitKinds == {"zero", "nonzero", "signal"}

\* agents whose process handle was removed or never stored
Ended == (1..nextAgent) \ (starting \cup activeProcesses)

\* the capacity check of spawnAgentInIsolation
AtCapacity_Strict == Cardinality(activeProcesses) > MAX_CONCURRENT_AGENTS

AtCapacity == Cardinality(activeProcesses) >= MAX_CONCURRENT_AGENTS

\* terminateAgent up to its await: an unknown id returns not_found; otherwise
\* agent:terminating is emitted and the worktree service's terminateAgent is
\* called. The handle stays in activeProcesses.
TerminateAgent_NoLookup(a, r) ==
  termInFlight' = termInFlight \cup {<<a, r>>}

TerminateAgent(a, r) ==
  IF a \in activeProcesses
  THEN termInFlight' = termInFlight \cup {<<a, r>>}
  ELSE UNCHANGED termInFlight

\* clearTimeout(timeoutHandle) in the exit and error handlers
ClearTimeout_Kept(a) == timeoutHandles

ClearTimeout(a) == timeoutHandles \ {a}

\* stopResourceMonitoring: clearInterval, delete the monitor
stopResourceMonitoring_Skipped(a) == resourceMonitors

stopResourceMonitoring(a) == resourceMonitors \ {a}

\* spawnAgentInIsolation up to its first await: the check passes
SpawnBegin ==
  /\ awaitingWorktree + nextAgent < MaxSpawnCalls
  /\ ~AtCapacity
  /\ awaitingWorktree' = awaitingWorktree + 1
  /\ UNCHANGED <<nextAgent, starting, capacityErrors>>
  /\ UNCHANGED <<procVars, endVars, termVars, sampling, cleanupVars>>
  /\ UNCHANGED <<ioVars, msgVars, regVars, coordVars, consVars, uiVars, pruneVars, bcastVars>>

\* spawnAgentInIsolation: the check throws
SpawnRejected ==
  /\ capacityErrors < MaxCapacityErrors
  /\ AtCapacity
  /\ capacityErrors' = capacityErrors + 1
  /\ UNCHANGED <<awaitingWorktree, nextAgent, starting>>
  /\ UNCHANGED <<procVars, endVars, termVars, sampling, cleanupVars>>
  /\ UNCHANGED <<ioVars, msgVars, regVars, coordVars, consVars, uiVars, pruneVars, bcastVars>>

\* spawnWorktreeAgent resolves: the agent has an id, agent:spawning is
\* emitted; startAgentProcess is awaited
WorktreeCreated ==
  /\ awaitingWorktree > 0
  /\ awaitingWorktree' = awaitingWorktree - 1
  /\ nextAgent' = nextAgent + 1
  /\ starting' = starting \cup {nextAgent + 1}
  /\ UNCHANGED capacityErrors
  /\ UNCHANGED <<procVars, endVars, termVars, sampling, cleanupVars>>
  /\ UNCHANGED <<ioVars, msgVars, regVars, coordVars, consVars, uiVars, pruneVars, bcastVars>>

\* spawnWorktreeAgent rejects: agentId is null, the error is rethrown
WorktreeFailed ==
  /\ awaitingWorktree > 0
  /\ awaitingWorktree' = awaitingWorktree - 1
  /\ UNCHANGED <<nextAgent, starting, capacityErrors>>
  /\ UNCHANGED <<procVars, endVars, termVars, sampling, cleanupVars>>
  /\ UNCHANGED <<ioVars, msgVars, regVars, coordVars, consVars, uiVars, pruneVars, bcastVars>>

\* startAgentProcess resolves: the handle is stored, setupProcessHandlers
\* arms the wall-clock timer and registers the exit and error handlers,
\* startResourceMonitoring starts a monitor when the child has a pid. The
\* handle has a stdin stream or none.
ProcessStarted(a, hasPid, hasStdin) ==
  /\ a \in starting
  /\ starting' = starting \ {a}
  /\ activeProcesses' = activeProcesses \cup {a}
  /\ timeoutHandles' = timeoutHandles \cup {a}
  /\ resourceMonitors' = IF hasPid THEN resourceMonitors \cup {a} ELSE resourceMonitors
  /\ spawned' = spawned \cup {a}
  /\ stdin' = [stdin EXCEPT ![a] = IF hasStdin THEN "open" ELSE "none"]
  /\ UNCHANGED <<awaitingWorktree, nextAgent, capacityErrors>>
  /\ UNCHANGED <<endVars, termVars, sampling, cleanupVars>>
  /\ UNCHANGED <<stdinLines, messageSent, sendErrors, sendCalls>>
  /\ UNCHANGED <<msgVars, regVars, coordVars, consVars, uiVars, pruneVars, bcastVars>>

\* startAgentProcess rejects: agent:spawn-failed, failAgent, rethrow
ProcessStartFailed(a) ==
  /\ a \in starting
  /\ starting' = starting \ {a}
  /\ failCalls' = [failCalls EXCEPT ![a] = @ + 1]
  /\ UNCHANGED <<awaitingWorktree, nextAgent, capacityErrors>>
  /\ UNCHANGED <<procVars, exitEvent, errorEvents, completeCalls>>
  /\ UNCHANGED <<termVars, sampling, cleanupVars>>
  /\ UNCHANGED <<ioVars, msgVars, regVars, coordVars, consVars, uiVars, pruneVars, bcastVars>>

\* the child's exit handler (once): clearTimeout, delete the handle,
\* stopResourceMonitoring (which has no await, so the handler goes on in the
\* same tick), agent:exit, then completeAgent for code 0 and failAgent
\* otherwise
ChildExit(a, c) ==
  /\ a \in spawned
  /\ exitEvent[a] = "none"
  /\ timeoutHandles' = ClearTimeout(a)
  /\ activeProcesses' = activeProcesses \ {a}
  /\ resourceMonitors' = stopResourceMonitoring(a)
  /\ exitEvent' = [exitEvent EXCEPT ![a] = c]
  /\ IF c = "zero"
     THEN /\ completeCalls' = [completeCalls EXCEPT ![a] = @ + 1]
          /\ UNCHANGED failCalls
     ELSE /\ failCalls' = [failCalls EXCEPT ![a] = @ + 1]
          /\ UNCHANGED completeCalls
  /\ UNCHANGED <<awaitingWorktree, nextAgent, starting, capacityErrors>>
  /\ UNCHANGED <<spawned, errorEvents>>
  /\ UNCHANGED <<termVars, sampling, cleanupVars>>
  /\ UNCHANGED <<ioVars, msgVars, regVars, coordVars, consVars, uiVars, pruneVars, bcastVars>>

\* the child's error handler (on): clearTimeout, delete the handle,
\* stopResourceMonitoring, agent:error, failAgent. The process may still be
\* running and exit later.
ChildError(a) ==
  /\ a \in spawned
  /\ exitEvent[a] = "none"
  /\ errorEvents[a] < MaxErrors
  /\ timeoutHandles' = ClearTimeout(a)
  /\ activeProcesses' = activeProcesses \ {a}
  /\ resourceMonitors' = stopResourceMonitoring(a)
  /\ errorEvents' = [errorEvents EXCEPT ![a] = @ + 1]
  /\ failCalls' = [failCalls EXCEPT ![a] = @ + 1]
  /\ UNCHANGED <<awaitingWorktree, nextAgent, starting, capacityErrors>>
  /\ UNCHANGED <<spawned, exitEvent, completeCalls>>
  /\ UNCHANGED <<termVars, sampling, cleanupVars>>
  /\ UNCHANGED <<ioVars, msgVars, regVars, coordVars, consVars, uiVars, pruneVars, bcastVars>>

\* the wall-clock timer fires: agent:timeout, terminateAgent(id, "timeout")
TimeoutFire(a) ==
  /\ a \in timeoutHandles
  /\ timeoutHandles' = timeoutHandles \ {a}
  /\ TerminateAgent(a, TIMEOUT)
  /\ UNCHANGED <<awaitingWorktree, nextAgent, starting, capacityErrors>>
  /\ UNCHANGED <<activeProcesses, resourceMonitors, spawned>>
  /\ UNCHANGED <<endVars, shutdownRequested, termSucceeded, notFoundAfterSuccess>>
  /\ UNCHANGED <<sampling, cleanupVars>>
  /\ UNCHANGED <<ioVars, msgVars, regVars, coordVars, consVars, uiVars, pruneVars, bcastVars>>

\* a client calls terminateAgent(id) (reason user_initiated) for an id it
\* has seen; its calls for one id follow one another
UserTerminate(a) ==
  /\ a \in 1..nextAgent
  /\ <<a, USER_INITIATED>> \notin termInFlight
  /\ TerminateAgent(a, USER_INITIATED)
  /\ notFoundAfterSuccess' =
       [notFoundAfterSuccess EXCEPT
          ![a] = @ \/ (a \notin activeProcesses /\ termSucceeded[a])]
  /\ UNCHANGED <<awaitingWorktree, nextAgent, starting, capacityErrors>>
  /\ UNCHANGED <<procVars, endVars, shutdownRequested, termSucceeded>>
  /\ UNCHANGED <<sampling, cleanupVars>>
  /\ UNCHANGED <<ioVars, msgVars, regVars, coordVars, consVars, uiVars, pruneVars, bcastVars>>

\* the worktree service's terminate signals the process, waits for its
\* exit and then removes the working copy: it resolves only once the
\* process has exited
ServiceTerminated(a) == exitEvent[a] # "none"

\* cleanupAll from the next iteration of its first loop on: an id whose
\* handle is gone returns not_found at once; for the next id that is still
\* tracked agent:terminating is emitted and the service is called (the
\* sync part of terminateAgent(id, "shutdown")). After the last id the
\* second loop stops the monitors of the ids taken at the start and the
\* call returns their number.
CleanupLoop(ids, left, inFlight) ==
  LET live == left \cap activeProcesses
  IN  IF live = {}
      THEN /\ cleanupPc' = "done"
           /\ cleanupLeft' = {}
           /\ resourceMonitors' = resourceMonitors \ ids
           /\ cleaned' = Cardinality(ids)
           /\ termInFlight' = inFlight
           /\ UNCHANGED shutdownRequested
      ELSE \E b \in live :
             /\ cleanupPc' = "loop"
             /\ cleanupLeft' = left \ {b}
             /\ termInFlight' = inFlight \cup {<<b, SHUTDOWN>>}
             /\ shutdownRequested' = shutdownRequested \cup {b}
             /\ UNCHANGED <<resourceMonitors, cleaned>>

\* cleanupAll up to its first await: the keys of activeProcesses are taken
CleanupAllBegin ==
  /\ cleanupPc = "idle"
  /\ cleanupIds' = activeProcesses
  /\ CleanupLoop(activeProcesses, activeProcesses, termInFlight)
  /\ UNCHANGED <<awaitingWorktree, nextAgent, starting, capacityErrors>>
  /\ UNCHANGED <<activeProcesses, timeoutHandles, spawned>>
  /\ UNCHANGED <<endVars, termSucceeded, notFoundAfterSuccess>>
  /\ UNCHANGED sampling
  /\ UNCHANGED <<ioVars, msgVars, regVars, coordVars, consVars, uiVars, pruneVars, bcastVars>>

\* the service's terminateAgent settles: terminateAgent returns success, or
\* the error's message when the service threw; cleanupAll goes on with its
\* loop
TerminateReturn(a, r, ok) ==
  /\ <<a, r>> \in termInFlight
  /\ ok => ServiceTerminated(a)
  /\ termSucceeded' = [termSucceeded EXCEPT ![a] = @ \/ ok]
  /\ IF r = SHUTDOWN
     THEN /\ CleanupLoop(cleanupIds, cleanupLeft, termInFlight \ {<<a, r>>})
          /\ UNCHANGED cleanupIds
     ELSE /\ termInFlight' = termInFlight \ {<<a, r>>}
          /\ UNCHANGED <<shutdownRequested, resourceMonitors, cleanupVars>>
  /\ UNCHANGED <<awaitingWorktree, nextAgent, starting, capacityErrors>>
  /\ UNCHANGED <<activeProcesses, timeoutHandles, spawned>>
  /\ UNCHANGED <<endVars, notFoundAfterSuccess>>
  /\ UNCHANGED sampling
  /\ UNCHANGED <<ioVars, msgVars, regVars, coordVars, consVars, uiVars, pruneVars, bcastVars>>

\* the size is taken only when the read (the PowerShell call,
\* /proc/<pid>/statm) gave data and, off Windows, the call of os.pageSize
\* did not throw
Measured(inp) ==
  inp.readOk /\ (inp.platform = "win32" \/ inp.hasPageSize)

\* what one sample reads: the platform, whether the read gave data, the
\* resident size in 4096-byte pages (one value when it is not taken), and
\* whether the runtime provides os.pageSize
StatInputs ==
  {inp \in [platform : {"win32", "linux"}, readOk : BOOLEAN,
            pages : {131072, 131073, 131074}, hasPageSize : BOOLEAN] :
     ~Measured(inp) => inp.pages = 131072}

\* getProcessStats: memoryMB in hundredths of a MB, as
\* Math.round(memoryMB * 100) / 100 leaves it; 0 when nothing was measured
getProcessStats(inp) ==
  IF Measured(inp) THEN (inp.pages * 200 + 256) \div 512 ELSE 0

\* stats.memoryMB > AGENT_MEMORY_LIMIT_MB
OverMemoryLimit_Inclusive(mem) == mem >= AGENT_MEMORY_LIMIT_MB * 100

OverMemoryLimit(mem) == mem > AGENT_MEMORY_LIMIT_MB * 100

\* the monitor's interval fires: checkResources awaits getProcessStats
SampleTick(a) ==
  /\ a \in resourceMonitors
  /\ a \notin sampling
  /\ <<a, MEMORY_LIMIT_EXCEEDED>> \notin termInFlight
  /\ sampling' = sampling \cup {a}
  /\ UNCHANGED <<awaitingWorktree, nextAgent, starting, capacityErrors>>
  /\ UNCHANGED <<procVars, endVars, termVars, cleanupVars>>
  /\ UNCHANGED <<ioVars, msgVars, regVars, coordVars, consVars, uiVars, pruneVars, bcastVars>>

\* checkResources after getProcessStats: over the limit,
\* terminateAgent(id, "memory_limit_exceeded") is called
SampleResult(a, inp) ==
  LET mem == getProcessStats(inp)
  IN  /\ a \in sampling
      /\ sampling' = sampling \ {a}
      /\ IF OverMemoryLimit(mem)
         THEN TerminateAgent(a, MEMORY_LIMIT_EXCEEDED)
         ELSE UNCHANGED termInFlight
      /\ UNCHANGED <<awaitingWorktree, nextAgent, starting, capacityErrors>>
      /\ UNCHANGED <<procVars, endVars, cleanupVars>>
      /\ UNCHANGED <<shutdownRequested, termSucceeded, notFoundAfterSuccess>>
      /\ UNCHANGED <<ioVars, msgVars, regVars, coordVars, consVars, uiVars, pruneVars, bcastVars>>

\* what a caller passes to sendToAgent: a string without a line break or an
\* object (JSON.stringify escapes line breaks), or a string with one line
\* break in it
Payloads == {"line", "multiline"}

\* newline-terminated lines in data + "\n"
LinesOf(payload) == IF payload = "line" THEN 1 ELSE 2

\* the child closes its end of the pipe, or the stream is ended or
\* destroyed: childProcess.stdin is still the stream object
StdinClosed(a) ==
  /\ a \in activeProcesses
  /\ stdin[a] = "open"
  /\ stdin' = [stdin EXCEPT ![a] = "closed"]
  /\ UNCHANGED <<awaitingWorktree, nextAgent, starting, capacityErrors>>
  /\ UNCHANGED <<procVars, endVars, termVars, sampling, cleanupVars>>
  /\ UNCHANGED <<stdinLines, messageSent, sendErrors, sendCalls>>
  /\ UNCHANGED <<msgVars, regVars, coordVars, consVars, uiVars, pruneVars, bcastVars>>

\* the test of sendToAgent for a stream: !childProcess.stdin
HasStdin(a) == stdin[a] # "none"

\* sendToAgent(id, payload): throws for an unknown id and for a handle
\* without stdin; otherwise stdin.write(data + "\n"), which reaches the child
\* only through an open stream, and agent:message-sent
SendToAgent(a, payload) ==
  /\ sendCalls < MaxSendCalls
  /\ a \in 1..nextAgent
  /\ sendCalls' = sendCalls + 1
  /\ IF a \notin activeProcesses
     THEN /\ sendErrors' = sendErrors \cup {<<a, "not found">>}
          /\ UNCHANGED <<stdinLines, messageSent>>
     ELSE IF ~HasStdin(a)
     THEN /\ sendErrors' = sendErrors \cup {<<a, "has no stdin stream">>}
          /\ UNCHANGED <<stdinLines, messageSent>>
     ELSE /\ stdinLines' = [stdinLines EXCEPT
                              ![a] = IF stdin[a] = "open" THEN @ + LinesOf(payload) ELSE @]
          /\ messageSent' = [messageSent EXCEPT ![a] = @ + 1]
          /\ UNCHANGED sendErrors
  /\ UNCHANGED <<awaitingWorktree, nextAgent, starting, capacityErrors>>
  /\ UNCHANGED <<procVars, endVars, termVars, sampling, cleanupVars>>
  /\ UNCHANGED stdin
  /\ UNCHANGED <<msgVars, regVars, coordVars, consVars, uiVars, pruneVars, bcastVars>>

IsoInit ==
  /\ awaitingWorktree = 0
  /\ nextAgent = 0
  /\ starting = {}
  /\ capacityErrors = 0
  /\ activeProcesses = {}
  /\ resourceMonitors = {}
  /\ timeoutHandles = {}
  /\ spawned = {}
  /\ exitEvent = [a \in AgentIds |-> "none"]
  /\ errorEvents = [a \in AgentIds |-> 0]
  /\ completeCalls = [a \in AgentIds |-> 0]
  /\ failCalls = [a \in AgentIds |-> 0]
  /\ termInFlight = {}
  /\ shutdownRequested = {}
  /\ termSucceeded = [a \in AgentIds |-> FALSE]
  /\ notFoundAfterSuccess = [a \in AgentIds |-> FALSE]
  /\ sampling = {}
  /\ cleanupPc = "idle"
  /\ cleanupIds = {}
  /\ cleanupLeft = {}
  /\ cleaned = 0
  /\ stdin = [a \in AgentIds |-> "none"]
  /\ stdinLines = [a \in AgentIds |-> 0]
  /\ messageSent = [a \in AgentIds |-> 0]
  /\ sendErrors = {}
  /\ sendCalls = 0

\* concurrent spawn calls up to the capacity; few children end, with code 0
IsoNext ==
  \/ SpawnBegin
  \/ SpawnRejected
  \/ WorktreeCreated
  \/ WorktreeFailed
  \/ \E a \in AgentIds : ProcessStarted(a, TRUE, TRUE)
  \/ \E a \in AgentIds : Cardinality(Ended) < MaxEnded /\ ProcessStartFailed(a)
  \/ \E a \in AgentIds : Cardinality(Ended) < MaxEnded /\ ChildExit(a, "zero")

\* the life of a few workers: spawn, exit and error events, the wall-clock
\* timer, the monitor's samples, terminateAgent calls, cleanupAll
SupNext ==
  \/ awaitingWorktree + nextAgent < MaxWorkers /\ SpawnBegin
  \/ WorktreeCreated
  \/ WorktreeFailed
  \/ \E a \in AgentIds, hasPid \in BOOLEAN : ProcessStarted(a, hasPid, TRUE)
  \/ \E a \in AgentIds : ProcessStartFailed(a)
  \/ \E a \in AgentIds, c \in ExitKinds : ChildExit(a, c)
  \/ \E a \in AgentIds : ChildError(a)
  \/ \E a \in AgentIds : TimeoutFire(a)
  \/ \E a \in AgentIds : UserTerminate(a)
  \/ \E a \in AgentIds, r \in Reasons, ok \in BOOLEAN : TerminateReturn(a, r, ok)
  \/ \E a \in AgentIds : SampleTick(a)
  \/ \E a \in AgentIds, inp \in StatInputs : SampleResult(a, inp)
  \/ CleanupAllBegin

\* messages written to the workers' stdin: spawn, the stream closing, the
\* child ending, sendToAgent calls
IoNext ==
  \/ awaitingWorktree + nextAgent < MaxWorkers /\ SpawnBegin
  \/ WorktreeCreated
  \/ \E a \in AgentIds, hasPid, hasStdin \in BOOLEAN : ProcessStarted(a, hasPid, hasStdin)
  \/ \E a \in AgentIds, c \in ExitKinds : ChildExit(a, c)
  \/ \E a \in AgentIds : StdinClosed(a)
  \/ \E a \in AgentIds, payload \in Payloads : SendToAgent(a, payload)

\* =====================================================================
\* AgentMessenger
\* =====================================================================
MsgIds == 1..MaxMsgs
QueueKeys == {"default:a1", "default:a2"}
SendPriorities == {CRITICAL, NORMAL}
NoFile == [status |-> "none", retryCount |-> 0]
Outcomes == {"delivered", "notDelivered", "threw"}

NonTerminal(st) == st \in {PENDING, RETRYING}
Terminal(st) == st \in {DELIVERED, FAILED}

\* JSON.stringify(message) as persistMessage takes it at the call
Snapshot(st, rc) == [status |-> st, retryCount |-> rc]

InQueue(m) == \E k \in QueueKeys : \E i \in 1..Len(queues[k]) : queues[k][i] = m

Front(s) == SubSeq(s, 1, Len(s) - 1)

\* queue.sort((a, b) => a.priority - b.priority), a stable sort: the
\* messages of each MESSAGE_PRIORITY value in turn, each group in its
\* former order
SortByPriority(s, prio) ==
  LET Group(p) == SelectSeq(s, LAMBDA m : prio[m] = p)
  IN  Group(CRITICAL) \o Group(HIGH) \o Group(NORMAL) \o Group(LOW)

\* processQueue, the synchronous run of the for loop from iterator position
\* i on, through the end of a pass and into the next pass, up to the first
\* await (the delivery attempt of a head) or the end of the loop
RECURSIVE Scan(_, _, _, _, _, _)
Scan(i, qo, qs, proc, st, run) ==
  IF i > Len(qo)
  THEN IF (~proc) \/ (~run)
       THEN [pc |-> "idle", idx |-> 0, qs |-> qs, proc |-> FALSE, m |-> 0, run |-> FALSE]
       ELSE Scan(1, qo, qs, FALSE, st, run)
  ELSE LET k == qo[i]
           q == qs[k]
       IN IF q = <<>>
          THEN Scan(i + 1, qo, qs, proc, st, run)
          ELSE IF ~NonTerminal(st[Head(q)])
               THEN Scan(i + 1, qo, [qs EXCEPT ![k] = Tail(q)], TRUE, st, run)
               ELSE [pc |-> "sending", idx |-> i, qs |-> qs, proc |-> proc,
                     m |-> Head(q), run |-> run]

\* the assignments of one synchronous run of processQueue
Continue(r) ==
  /\ pc' = r.pc
  /\ iterIdx' = r.idx
  /\ queues' = r.qs
  /\ processed' = r.proc
  /\ cur' = r.m
  /\ isProcessing' = r.run
  /\ attempts' = IF r.pc = "sending"
                 THEN [attempts EXCEPT ![r.m] = @ + 1]
                 ELSE attempts

\* send, up to await persistMessage
Send(k, p) ==
  /\ Len(queues[k]) < MAX_QUEUE_SIZE
  /\ LET m == nextMsg
         prio == [priority EXCEPT ![m] = p]
     IN /\ queueOrder' = IF \E i \in 1..Len(queueOrder) : queueOrder[i] = k
                         THEN queueOrder ELSE Append(queueOrder, k)
        /\ queues' = [queues EXCEPT ![k] = SortByPriority(Append(@, m), prio)]
        /\ priority' = prio
        /\ qkey' = [qkey EXCEPT ![m] = k]
        /\ status' = [status EXCEPT ![m] = PENDING]
        /\ retryCount' = [retryCount EXCEPT ![m] = 0]
        /\ file' = [file EXCEPT ![m] = Snapshot(PENDING, 0)]
        /\ sendsInFlight' = sendsInFlight \cup {m}
        /\ nextMsg' = nextMsg + 1
  /\ UNCHANGED <<retryTimers, isProcessing, pc, cur, iterIdx, processed, marks,
                 markCalls, restarts, attempts, okAttempts, failedEvents>>
  /\ UNCHANGED <<isoVars, regVars, coordVars, consVars, uiVars, loopVars, pruneVars, bcastVars>>

\* send, after persistMessage: emit queued, startProcessing
SendResume(m) ==
  /\ m \in sendsInFlight
  /\ sendsInFlight' = sendsInFlight \ {m}
  /\ IF isProcessing
     THEN UNCHANGED <<queues, isProcessing, pc, cur, iterIdx, processed, attempts>>
     ELSE Continue(Scan(1, queueOrder, queues, FALSE, status, TRUE))
  /\ UNCHANGED <<queueOrder, status, retryCount, priority, qkey, file, retryTimers,
                 marks, nextMsg, markCalls, restarts, okAttempts, failedEvents>>
  /\ UNCHANGED <<isoVars, regVars, coordVars, consVars, uiVars, loopVars, pruneVars, bcastVars>>

\* startProcessing called while the bus is idle (a public method; send and
\* loadPersistedMessages call it as part of their own steps)
StartProcessing ==
  /\ ~isProcessing
  /\ pc = "idle"
  /\ \E k \in QueueKeys : queues[k] # <<>>
  /\ Continue(Scan(1, queueOrder, queues, FALSE, status, TRUE))
  /\ UNCHANGED <<queueOrder, status, retryCount, priority, qkey, file, retryTimers,
                 sendsInFlight, marks, nextMsg, markCalls, restarts, okAttempts,
                 failedEvents>>
  /\ UNCHANGED <<isoVars, regVars, coordVars, consVars, uiVars, loopVars, pruneVars, bcastVars>>

\* a plausible slip: the ceiling is taken one attempt early
AtRetryCeiling_Early(rc) == rc >= MAX_RETRIES - 1

\* processQueue: message.retryCount >= MAX_RETRIES
AtRetryCeiling(rc) == rc >= MAX_RETRIES

\* processQueue after a failed attempt: the retry ceiling (mark failed,
\* persist) or the retry branch (mark retrying, count, persist)
FailureBranch ==
  IF AtRetryCeiling(retryCount[cur])
  THEN /\ status' = [status EXCEPT ![cur] = FAILED]
       /\ file' = [file EXCEPT ![cur] = Snapshot(FAILED, retryCount[cur])]
       /\ pc' = "failPersisted"
       /\ UNCHANGED retryCount
  ELSE /\ status' = [status EXCEPT ![cur] = RETRYING]
       /\ retryCount' = [retryCount EXCEPT ![cur] = @ + 1]
       /\ file' = [file EXCEPT ![cur] = Snapshot(RETRYING, retryCount[cur] + 1)]
       /\ pc' = "retryPersisted"

\* deliverMessage after await emit("message:send"), and the branch
\* processQueue takes on its result, up to the next await
DeliverResult(o) ==
  /\ pc = "sending"
  /\ \/ /\ o = "delivered"
        /\ status' = [status EXCEPT ![cur] = DELIVERED]
        /\ file' = [file EXCEPT ![cur] = Snapshot(DELIVERED, retryCount[cur])]
        /\ pc' = "dlvPersisted"
        /\ okAttempts' = okAttempts \cup {cur}
        /\ UNCHANGED retryCount
     \/ /\ o = "threw"
        /\ file' = [file EXCEPT ![cur] = Snapshot(status[cur], retryCount[cur])]
        /\ pc' = "errPersisted"
        /\ UNCHANGED <<status, retryCount, okAttempts>>
     \/ /\ o = "notDelivered"
        /\ FailureBranch
        /\ UNCHANGED okAttempts
  /\ UNCHANGED <<queueOrder, queues, priority, qkey, retryTimers, isProcessing, cur,
                 iterIdx, processed, sendsInFlight, marks, nextMsg, markCalls,
                 restarts, attempts, failedEvents>>
  /\ UNCHANGED <<isoVars, regVars, coordVars, consVars, uiVars, loopVars, pruneVars, bcastVars>>

\* deliverMessage, the catch block after persistMessage: return false, and
\* the branch processQueue takes
DeliverErrorResume ==
  /\ pc = "errPersisted"
  /\ FailureBranch
  /\ UNCHANGED <<queueOrder, queues, priority, qkey, retryTimers, isProcessing, cur,
                 iterIdx, processed, sendsInFlight, marks, nextMsg, markCalls,
                 restarts, attempts, okAttempts, failedEvents>>
  /\ UNCHANGED <<isoVars, regVars, coordVars, consVars, uiVars, loopVars, pruneVars, bcastVars>>

\* deliverMessage after persistMessage of the delivered message:
\* deletePersistedMessage
DeliverDelete ==
  /\ pc = "dlvPersisted"
  /\ file' = [file EXCEPT ![cur] = NoFile]
  /\ pc' = "dlvDeleted"
  /\ UNCHANGED <<queueOrder, queues, status, retryCount, priority, qkey, retryTimers,
                 isProcessing, cur, iterIdx, processed, sendsInFlight, marks, nextMsg,
                 markCalls, restarts, attempts, okAttempts, failedEvents>>
  /\ UNCHANGED <<isoVars, regVars, coordVars, consVars, uiVars, loopVars, pruneVars, bcastVars>>

\* the queue array the for loop holds, after queue.shift()
Shifted == [queues EXCEPT ![queueOrder[iterIdx]] = Tail(@)]

\* deliverMessage returns true: queue.shift(), processed = true, next queue
DeliverDone ==
  /\ pc = "dlvDeleted"
  /\ Continue(Scan(iterIdx + 1, queueOrder, Shifted, TRUE, status, isProcessing))
  /\ UNCHANGED <<queueOrder, status, retryCount, priority, qkey, file, retryTimers,
                 sendsInFlight, marks, nextMsg, markCalls, restarts, okAttempts,
                 failedEvents>>
  /\ UNCHANGED <<isoVars, regVars, coordVars, consVars, uiVars, loopVars, pruneVars, bcastVars>>

\* retry ceiling, after persistMessage: emit failed, queue.shift(),
\* processed = true, next queue
FailDone ==
  /\ pc = "failPersisted"
  /\ failedEvents' = [failedEvents EXCEPT ![cur] = @ + 1]
  /\ Continue(Scan(iterIdx + 1, queueOrder, Shifted, TRUE, status, isProcessing))
  /\ UNCHANGED <<queueOrder, status, retryCount, priority, qkey, file, retryTimers,
                 sendsInFlight, marks, nextMsg, markCalls, restarts, okAttempts>>
  /\ UNCHANGED <<isoVars, regVars, coordVars, consVars, uiVars, loopVars, pruneVars, bcastVars>>

\* retry branch, after persistMessage: arm the timer unless one is armed,
\* break out of the for loop
RetryBreak ==
  /\ pc = "retryPersisted"
  /\ retryTimers' = retryTimers \cup {cur}
  /\ Continue(Scan(Len(queueOrder) + 1, queueOrder, queues, processed, status,
                   isProcessing))
  /\ UNCHANGED <<queueOrder, status, retryCount, priority, qkey, file, sendsInFlight,
                 marks, nextMsg, markCalls, restarts, okAttempts, failedEvents>>
  /\ UNCHANGED <<isoVars, regVars, coordVars, consVars, uiVars, loopVars, pruneVars, bcastVars>>

\* the retry timer's callback
TimerFire(m) ==
  /\ m \in retryTimers
  /\ retryTimers' = retryTimers \ {m}
  /\ status' = [status EXCEPT ![m] = PENDING]
  /\ UNCHANGED <<queueOrder, queues, retryCount, priority, qkey, file, isProcessing,
                 pc, cur, iterIdx, processed, sendsInFlight, marks, nextMsg, markCalls,
                 restarts, attempts, okAttempts, failedEvents>>
  /\ UNCHANGED <<isoVars, regVars, coordVars, consVars, uiVars, loopVars, pruneVars, bcastVars>>

\* markDelivered, up to await persistMessage
MarkDelivered(m) ==
  /\ markCalls < MaxMarks
  /\ m < nextMsg
  /\ marks[m] = "none"
  /\ markCalls' = markCalls + 1
  /\ retryTimers' = retryTimers \ {m}
  /\ IF InQueue(m)
     THEN /\ status' = [status EXCEPT ![m] = DELIVERED]
          /\ file' = [file EXCEPT ![m] = Snapshot(DELIVERED, retryCount[m])]
          /\ marks' = [marks EXCEPT ![m] = "deliveredPersisted"]
     ELSE UNCHANGED <<status, file, marks>>
  /\ UNCHANGED <<queueOrder, queues, retryCount, priority, qkey, isProcessing, pc, cur,
                 iterIdx, processed, sendsInFlight, nextMsg, restarts, attempts,
                 okAttempts, failedEvents>>
  /\ UNCHANGED <<isoVars, regVars, coordVars, consVars, uiVars, loopVars, pruneVars, bcastVars>>

\* markDelivered after persistMessage: deletePersistedMessage
MarkDeliveredDelete(m) ==
  /\ marks[m] = "deliveredPersisted"
  /\ file' = [file EXCEPT ![m] = NoFile]
  /\ marks' = [marks EXCEPT ![m] = "deliveredDeleted"]
  /\ UNCHANGED <<queueOrder, queues, status, retryCount, priority, qkey, retryTimers,
                 isProcessing, pc, cur, iterIdx, processed, sendsInFlight, nextMsg,
                 markCalls, restarts, attempts, okAttempts, failedEvents>>
  /\ UNCHANGED <<isoVars, regVars, coordVars, consVars, uiVars, loopVars, pruneVars, bcastVars>>

\* markFailed, up to await persistMessage
MarkFailed(m) ==
  /\ markCalls < MaxMarks
  /\ m < nextMsg
  /\ marks[m] = "none"
  /\ markCalls' = markCalls + 1
  /\ retryTimers' = retryTimers \ {m}
  /\ IF InQueue(m)
     THEN /\ status' = [status EXCEPT ![m] = FAILED]
          /\ file' = [file EXCEPT ![m] = Snapshot(FAILED, retryCount[m])]
          /\ marks' = [marks EXCEPT ![m] = "failedPersisted"]
     ELSE UNCHANGED <<status, file, marks>>
  /\ UNCHANGED <<queueOrder, queues, retryCount, priority, qkey, isProcessing, pc, cur,
                 iterIdx, processed, sendsInFlight, nextMsg, restarts, attempts,
                 okAttempts, failedEvents>>
  /\ UNCHANGED <<isoVars, regVars, coordVars, consVars, uiVars, loopVars, pruneVars, bcastVars>>

\* markDelivered after deletePersistedMessage, markFailed after
\* persistMessage: emit the event, return the message
MarkDone(m) ==
  /\ marks[m] \in {"deliveredDeleted", "failedPersisted"}
  /\ marks' = [marks EXCEPT ![m] = "none"]
  /\ UNCHANGED <<queueOrder, queues, status, retryCount, priority, qkey, file,
                 retryTimers, isProcessing, pc, cur, iterIdx, processed, sendsInFlight,
                 nextMsg, markCalls, restarts, attempts, okAttempts, failedEvents>>
  /\ UNCHANGED <<isoVars, regVars, coordVars, consVars, uiVars, loopVars, pruneVars, bcastVars>>

\* the orders in which readdir can list the files of the set S
Listings(S) ==
  {s \in [1..Cardinality(S) -> S] : \A i, j \in 1..Cardinality(S) : s[i] = s[j] => i = j}

\* the keys of the listed messages, in order of first appearance
RECURSIVE KeysOf(_, _)
KeysOf(s, qk) ==
  IF s = <<>> THEN <<>>
  ELSE <<qk[s[1]]>> \o KeysOf(SelectSeq(s, LAMBDA m : qk[m] # qk[s[1]]), qk)

\* loadPersistedMessages puts the message of a file into a queue when the
\* file says pending or retrying
IsLoaded(m) == NonTerminal(file[m].status)

Loaded == {m \in DOMAIN file : IsLoaded(m)}

\* the process stops and a new AgentMessenger is constructed and
\* initialized: loadPersistedMessages reads the files in the order readdir
\* lists them and deletes those of delivered and failed messages, then
\* startProcessing
RestartWith(order) ==
  LET ids == DOMAIN file
      st == [m \in ids |-> IF IsLoaded(m) THEN file[m].status ELSE "none"]
      qo == KeysOf(order, qkey)
      qs == [k \in QueueKeys |-> SelectSeq(order, LAMBDA m : qkey[m] = k)]
  IN  /\ restarts' = restarts + 1
      /\ queueOrder' = qo
      /\ status' = st
      /\ retryCount' = [m \in ids |-> IF IsLoaded(m) THEN file[m].retryCount ELSE 0]
      /\ file' = [m \in ids |-> IF IsLoaded(m) THEN file[m] ELSE NoFile]
      /\ IF order = <<>>
         THEN /\ queues' = qs
              /\ pc' = "idle"
              /\ iterIdx' = 0
              /\ processed' = FALSE
              /\ cur' = 0
              /\ isProcessing' = FALSE
              /\ UNCHANGED attempts
         ELSE Continue(Scan(1, qo, qs, FALSE, st, TRUE))
      /\ retryTimers' = {}
      /\ sendsInFlight' = {}
      /\ marks' = [m \in ids |-> "none"]
      /\ UNCHANGED <<priority, qkey, nextMsg, markCalls, okAttempts, failedEvents>>
      /\ UNCHANGED <<isoVars, regVars, coordVars, consVars, uiVars, loopVars, pruneVars, bcastVars>>

\* a restart, the files listed in any order
Restart ==
  /\ restarts < MaxRestarts
  /\ \E order \in Listings(Loaded) : RestartWith(order)

\* the type a caller gave each message (createMessage takes any string): the
\* odd ids are of type "task", the even ids of a type named "pending"
MsgType == [m \in MsgIds |-> IF m % 2 = 1 THEN "task" ELSE "pending"]

\* the positions of the queues whose message satisfies P
Positions(P(_)) ==
  UNION {{<<k, i>> : i \in {j \in 1..Len(queues[k]) : P(queues[k][j])}} : k \in QueueKeys}

\* groupByType(queue)[t] || 0, summed over the queues
groupByType(t) == Cardinality(Positions(LAMBDA m : MsgType[m] = t))

\* getAllQueueStatus: the totals; the three status totals are read from the
\* result of groupByType
getAllQueueStatus ==
  [totalMessages |-> Cardinality(Positions(LAMBDA m : TRUE)),
   pendingMessages |-> groupByType("pending"),
   retryingMessages |-> groupByType("retrying"),
   failedMessages |-> groupByType("failed")]

MsgInit ==
  /\ queueOrder = <<>>
  /\ queues = [k \in QueueKeys |-> <<>>]
  /\ status = [m \in MsgIds |-> "none"]
  /\ retryCount = [m \in MsgIds |-> 0]
  /\ priority = [m \in MsgIds |-> NORMAL]
  /\ qkey = [m \in MsgIds |-> "default:a1"]
  /\ file = [m \in MsgIds |-> NoFile]
  /\ retryTimers = {}
  /\ isProcessing = FALSE
  /\ pc = "idle"
  /\ cur = 0
  /\ iterIdx = 0
  /\ processed = FALSE
  /\ sendsInFlight = {}
  /\ marks = [m \in MsgIds |-> "none"]
  /\ nextMsg = 1
  /\ markCalls = 0
  /\ restarts = 0
  /\ attempts = [m \in MsgIds |-> 0]
  /\ okAttempts = {}
  /\ failedEvents = [m \in MsgIds |-> 0]
  /\ orphans = 0

MsgNext ==
  \/ \E k \in QueueKeys, p \in SendPriorities : nextMsg <= MaxMsgs /\ Send(k, p)
  \/ \E m \in MsgIds : SendResume(m)
  \/ StartProcessing
  \/ \E o \in Outcomes : DeliverResult(o)
  \/ DeliverErrorResume
  \/ DeliverDelete
  \/ DeliverDone
  \/ FailDone
  \/ RetryBreak
  \/ \E m \in MsgIds : TimerFire(m)
  \/ \E m \in MsgIds : MarkDelivered(m)
  \/ \E m \in MsgIds : MarkDeliveredDelete(m)
  \/ \E m \in MsgIds : MarkFailed(m)
  \/ \E m \in MsgIds : MarkDone(m)

\* clearAllQueues: the file of every queued message is deleted and its
\* timer cleared, then messageQueues.clear() and isProcessing = false. A
\* processQueue activation that is suspended in an await keeps the queue
\* array it holds, now detached from the map; it is counted in orphans and
\* followed no further
ClearAllQueues ==
  /\ LET queued == {m \in MsgIds : InQueue(m)}
     IN /\ file' = [m \in MsgIds |-> IF m \in queued THEN NoFile ELSE file[m]]
        /\ retryTimers' = retryTimers \ queued
  /\ queues' = [k \in QueueKeys |-> <<>>]
  /\ queueOrder' = <<>>
  /\ isProcessing' = FALSE
  /\ orphans' = IF pc = "idle" THEN orphans ELSE orphans + 1
  /\ pc' = "idle"
  /\ cur' = 0
  /\ iterIdx' = 0
  /\ processed' = FALSE
  /\ UNCHANGED <<status, retryCount, priority, qkey, sendsInFlight, marks, nextMsg,
                 markCalls, restarts, attempts, okAttempts, failedEvents>>
  /\ UNCHANGED <<isoVars, regVars, coordVars, consVars, uiVars, pruneVars, bcastVars>>

\* processQueue activations that have not returned
Activations == orphans + (IF pc = "idle" THEN 0 ELSE 1)

\* the bus with clearAllQueues next to send, startProcessing and the loop
ClearNext ==
  \/ \E k \in QueueKeys, p \in SendPriorities : nextMsg <= MaxMsgs /\ Send(k, p)
  \/ \E m \in MsgIds : SendResume(m)
  \/ StartProcessing
  \/ \E o \in Outcomes : DeliverResult(o)
  \/ DeliverErrorResume
  \/ DeliverDelete
  \/ DeliverDone
  \/ FailDone
  \/ RetryBreak
  \/ \E m \in MsgIds : TimerFire(m)
  \/ ClearAllQueues

MsgRestartNext == MsgNext \/ Restart

\* =====================================================================
\* AgentRegistry
\* =====================================================================
RegIds == 1..MaxAgents
Absent == "absent"
\* status values a caller can pass; "bogus" stands for any string outside
\* VALID_STATUSES
StatusInputs == VALID_STATUSES \cup {"bogus"}

\* the id a caller passes: a key, as it is or with surrounding whitespace
RawIds == RegIds \X BOOLEAN

\* raw.id.trim() in normalizeAgentData
Trim(raw) == raw[1]

\* get(id): the map is looked up with the id as passed; its keys are
\* normalized ids
Get(raw) == IF raw[2] THEN Absent ELSE agents[raw[1]]

\* loadFromDisk: the entries of the file that normalizeAgentData accepts
\* become the map; a missing file gives the empty map
LoadFromDisk(f) ==
  [id \in RegIds |-> IF f[id] \in VALID_STATUSES THEN f[id] ELSE Absent]

\* markDirty: the first mutation since the last completed write starts
\* persistToDisk, which suspends at await this.persistenceLock
MarkDirty ==
  IF ~isDirty
  THEN /\ isDirty' = TRUE
       /\ persistPc' = "awaitLock"
  ELSE UNCHANGED <<isDirty, persistPc>>

\* register: normalizeAgentData rejects an invalid status; otherwise the
\* record is inserted or replaced
Register(id, st) ==
  /\ st \in VALID_STATUSES
  /\ agents' = [agents EXCEPT ![id] = st]
  /\ registeredEvents' = registeredEvents \cup {id}
  /\ lastEvent' = [lastEvent EXCEPT ![id] = st]
  /\ MarkDirty
  /\ UNCHANGED <<persistData, registryFile>>
  /\ UNCHANGED <<isoVars, msgVars, coordVars, consVars, uiVars, pruneVars, bcastVars>>

\* register(agentData) as called: the record is stored under the
\* normalized id
RegisterCall(raw, st) == Register(Trim(raw), st)

\* update: throws for an unknown id; a status outside VALID_STATUSES is
\* dropped from the patch
Update(id, st) ==
  /\ agents[id] # Absent
  /\ agents' = [agents EXCEPT ![id] = IF st \in VALID_STATUSES THEN st ELSE @]
  /\ lastEvent' = [lastEvent EXCEPT ![id] = agents'[id]]
  /\ UNCHANGED registeredEvents
  /\ MarkDirty
  /\ UNCHANGED <<persistData, registryFile>>
  /\ UNCHANGED <<isoVars, msgVars, coordVars, consVars, uiVars, pruneVars, bcastVars>>

\* unregister: returns null for an unknown id
Unregister(id) ==
  /\ agents[id] # Absent
  /\ agents' = [agents EXCEPT ![id] = Absent]
  /\ lastEvent' = [lastEvent EXCEPT ![id] = agents[id]]
  /\ UNCHANGED registeredEvents
  /\ MarkDirty
  /\ UNCHANGED <<persistData, registryFile>>
  /\ UNCHANGED <<isoVars, msgVars, coordVars, consVars, uiVars, pruneVars, bcastVars>>

\* persistToDisk after await this.persistenceLock: the writer starts, mkdir
PersistLocked ==
  /\ persistPc = "awaitLock"
  /\ persistPc' = "awaitMkdir"
  /\ UNCHANGED <<agents, isDirty, persistData, registryFile>>
  /\ UNCHANGED eventVars
  /\ UNCHANGED <<isoVars, msgVars, coordVars, consVars, uiVars, pruneVars, bcastVars>>

\* after mkdir: the entries are taken and writeFile is called, or mkdir
\* failed and the error is logged by markDirty
PersistMkdirDone(ok) ==
  /\ persistPc = "awaitMkdir"
  /\ IF ok
     THEN /\ persistData' = agents
          /\ persistPc' = "awaitWrite"
     ELSE /\ persistPc' = "idle"
          /\ UNCHANGED persistData
  /\ UNCHANGED <<agents, isDirty, registryFile>>
  /\ UNCHANGED eventVars
  /\ UNCHANGED <<isoVars, msgVars, coordVars, consVars, uiVars, pruneVars, bcastVars>>

\* after writeFile: isDirty = false, or the write failed
PersistWriteDone(ok) ==
  /\ persistPc = "awaitWrite"
  /\ persistPc' = "idle"
  /\ IF ok
     THEN /\ registryFile' = persistData
          /\ isDirty' = FALSE
     ELSE UNCHANGED <<registryFile, isDirty>>
  /\ UNCHANGED <<agents, persistData>>
  /\ UNCHANGED eventVars
  /\ UNCHANGED <<isoVars, msgVars, coordVars, consVars, uiVars, pruneVars, bcastVars>>

\* a new instance of the registry (the server restarts with no write in
\* flight): initialize awaits loadFromDisk, which emits no event
Initialize ==
  /\ persistPc = "idle"
  /\ agents' = LoadFromDisk(registryFile)
  /\ isDirty' = FALSE
  /\ registeredEvents' = {}
  /\ lastEvent' = [id \in RegIds |-> "none"]
  /\ UNCHANGED <<persistPc, persistData, registryFile>>
  /\ UNCHANGED <<isoVars, msgVars, coordVars, consVars, uiVars, pruneVars, bcastVars>>

\* the file after a writeFile that did not finish: a prefix of the data,
\* which JSON.parse rejects
Truncated == [id \in RegIds |-> "truncated"]

\* the process stops while writeFile is writing the registry file in place
\* (the file was opened with truncation): the file is left as it was, cut
\* short, or complete; the next instance of the registry initializes from it
StopDuringWrite(left) ==
  /\ persistPc = "awaitWrite"
  /\ registryFile' = CASE left = "old" -> registryFile
                        [] left = "new" -> persistData
                        [] left = "truncated" -> Truncated
  /\ agents' = LoadFromDisk(registryFile')
  /\ persistPc' = "idle"
  /\ isDirty' = FALSE
  /\ registeredEvents' = {}
  /\ lastEvent' = [id \in RegIds |-> "none"]
  /\ UNCHANGED persistData
  /\ UNCHANGED <<isoVars, msgVars, coordVars, consVars, uiVars, pruneVars, bcastVars>>

RegInit ==
  /\ agents = [id \in RegIds |-> Absent]
  /\ isDirty = FALSE
  /\ persistPc = "idle"
  /\ persistData = [id \in RegIds |-> Absent]
  /\ registryFile = [id \in RegIds |-> Absent]
  /\ registeredEvents = {}
  /\ lastEvent = [id \in RegIds |-> "none"]

RegNext ==
  \/ \E raw \in RawIds, st \in StatusInputs : RegisterCall(raw, st)
  \/ \E id \in RegIds, st \in StatusInputs : Update(id, st)
  \/ \E id \in RegIds : Unregister(id)
  \/ PersistLocked
  \/ \E ok \in BOOLEAN : PersistMkdirDone(ok)
  \/ \E ok \in BOOLEAN : PersistWriteDone(ok)
  \/ Initialize

\* the registry with stops of the process in the middle of a write
RegStopNext ==
  \/ RegNext
  \/ \E left \in {"old", "new", "truncated"} : StopDuringWrite(left)

\* =====================================================================
\* Coordinator: one barrier and one election
\* =====================================================================
\* worker ids agent-1, agent-10 and agent-2, each as the digits of its number
Workers == {<<1>>, <<1, 0>>, <<2>>}

NoVote == <<>>

\* createBarrier(id, expected): the future is pending
CreateBarrier(exp) ==
  /\ barrier = "none"
  /\ exp # {}
  /\ barrier' = "waiting"
  /\ expected' = exp
  /\ arrived' = {}
  /\ UNCHANGED <<election, candidates, votes, winner, rejected>>
  /\ UNCHANGED <<isoVars, msgVars, regVars, consVars, uiVars, pruneVars, bcastVars>>

\* the barrier is complete when the arrived set covers the expected set
BarrierComplete_Any(arr) == arr # {}

BarrierComplete(arr) == expected \subseteq arr

\* signalBarrier(worker, id): the worker is added to the arrived set (a
\* second signal changes nothing); a waiting barrier that is complete now
\* resolves its future with success. Signals after the resolution are
\* accepted.
SignalBarrier(w) ==
  /\ barrier # "none"
  /\ arrived' = arrived \cup {w}
  /\ barrier' = IF barrier = "waiting" /\ BarrierComplete(arrived') THEN "complete" ELSE barrier
  /\ UNCHANGED <<expected, election, candidates, votes, winner, rejected>>
  /\ UNCHANGED <<isoVars, msgVars, regVars, consVars, uiVars, pruneVars, bcastVars>>

\* the deadline of a barrier that has not resolved passes
BarrierTimeout ==
  /\ barrier = "waiting"
  /\ barrier' = "timeout"
  /\ UNCHANGED <<expected, arrived, election, candidates, votes, winner, rejected>>
  /\ UNCHANGED <<isoVars, msgVars, regVars, consVars, uiVars, pruneVars, bcastVars>>

\* conductElection(id, candidates): the future is pending
ConductElection(cands) ==
  /\ election = "none"
  /\ cands # {}
  /\ election' = "in_progress"
  /\ candidates' = cands
  /\ UNCHANGED <<barrier, expected, arrived, votes, winner, rejected>>
  /\ UNCHANGED <<isoVars, msgVars, regVars, consVars, uiVars, pruneVars, bcastVars>>

\* one vote per voter: a voter with a recorded vote may not vote again
AlreadyVoted_Never(v) == FALSE

AlreadyVoted(v) == votes[v] # NoVote

\* castVote(id, voter, candidate) for a candidate of the election: recorded,
\* or rejected for a voter that has voted
CastVote(v, c) ==
  /\ election = "in_progress"
  /\ c \in candidates
  /\ IF AlreadyVoted(v)
     THEN /\ rejected' = rejected \cup {v}
          /\ UNCHANGED votes
     ELSE /\ votes' = [votes EXCEPT ![v] = c]
          /\ UNCHANGED rejected
  /\ UNCHANGED <<barrier, expected, arrived, election, candidates, winner>>
  /\ UNCHANGED <<isoVars, msgVars, regVars, consVars, uiVars, pruneVars, bcastVars>>

\* lexicographic order of two ids (strings of digits after "agent-")
LexLess_ShortLex(s, t) ==
  \/ Len(s) < Len(t)
  \/ Len(s) = Len(t) /\ \E i \in 1..Len(s) :
       s[i] < t[i] /\ \A j \in 1..(i - 1) : s[j] = t[j]

LexLess(s, t) ==
  \/ \E i \in 1..Len(s) :
       /\ i <= Len(t)
       /\ s[i] < t[i]
       /\ \A j \in 1..(i - 1) : s[j] = t[j]
  \/ Len(s) < Len(t) /\ \A j \in 1..Len(s) : s[j] = t[j]

\* recorded votes for a candidate
Tally(c) == Cardinality({v \in Workers : votes[v] = c})

\* the candidate with the most votes, ties broken by the
\* lexicographically smallest id
Winner ==
  CHOOSE c \in candidates :
    \A d \in candidates \ {c} :
      Tally(d) < Tally(c) \/ (Tally(d) = Tally(c) /\ LexLess(c, d))

\* the deadline of the election passes, or all voters have voted: the
\* future resolves with the winner
ElectionResolve ==
  /\ election = "in_progress"
  /\ election' = "completed"
  /\ winner' = Winner
  /\ UNCHANGED <<barrier, expected, arrived, candidates, votes, rejected>>
  /\ UNCHANGED <<isoVars, msgVars, regVars, consVars, uiVars, pruneVars, bcastVars>>

CoordInit ==
  /\ barrier = "none"
  /\ expected = {}
  /\ arrived = {}
  /\ election = "none"
  /\ candidates = {}
  /\ votes = [v \in Workers |-> NoVote]
  /\ winner = NoVote
  /\ rejected = {}

CoordNext ==
  \/ \E exp \in SUBSET Workers : CreateBarrier(exp)
  \/ \E w \in Workers : SignalBarrier(w)
  \/ BarrierTimeout
  \/ \E cands \in SUBSET Workers : ConductElection(cands)
  \/ \E v, c \in Workers : CastVote(v, c)
  \/ ElectionResolve

\* =====================================================================
\* Consolidation: the status of one consolidation and conflict analysis
\* =====================================================================
\* the participants, by their position in the agents array
Participants == 1..MaxParticipants

\* the @@ lines of a diff: the file the hunk belongs to, the start and the
\* line count of its base-revision range (<<>>: the count is omitted)
HunkHeaders == [file : {"x", "y"}, oldStart : {1, 3}, oldLines : {<<>>, <<0>>, <<3>>}]

\* a participant's diff: no hunk or one
DiffInputs == {{}} \cup {{h} : h \in HunkHeaders}

\* parseDiffHunks: one hunk per @@ line, an omitted count is 1; the file
\* the line stands under is not read
parseDiffHunks(d) ==
  {[header |-> h,
    oldStart |-> h.oldStart,
    oldLines |-> IF h.oldLines = <<>> THEN 1 ELSE h.oldLines[1]] : h \in d}

hunksOverlap(hunkA, hunkB) ==
  LET aEnd == hunkA.oldStart + hunkA.oldLines - 1
      bEnd == hunkB.oldStart + hunkB.oldLines - 1
  IN  hunkA.oldStart <= bEnd /\ hunkB.oldStart <= aEnd

\* analyzeConflicts: for every pair i < j of completed agents, every hunk
\* of the one against every hunk of the other
analyzeConflicts(st, d) ==
  Cardinality({t \in Participants \X Participants \X HunkHeaders \X HunkHeaders :
                 /\ t[1] < t[2]
                 /\ st[t[1]] = "completed" /\ st[t[2]] = "completed"
                 /\ \E hunkA \in parseDiffHunks(d[t[1]]), hunkB \in parseDiffHunks(d[t[2]]) :
                      /\ hunkA.header = t[3] /\ hunkB.header = t[4]
                      /\ hunksOverlap(hunkA, hunkB)})

\* a consolidation is created for the participants
CreateConsolidation(st, d) ==
  /\ consStatus = "none"
  /\ consStatus' = "pending"
  /\ agentStatus' = st
  /\ diffs' = d
  /\ UNCHANGED sameLineConflicts
  /\ UNCHANGED <<isoVars, msgVars, regVars, coordVars, uiVars, pruneVars, bcastVars>>

\* analysis starts on a consolidation that has not been analyzed
CanAnalyze_Again == consStatus \in {"pending", "ready"}

CanAnalyze == consStatus = "pending"

AnalyzeBegin ==
  /\ CanAnalyze
  /\ consStatus' = "analyzing"
  /\ UNCHANGED <<agentStatus, diffs, sameLineConflicts>>
  /\ UNCHANGED <<isoVars, msgVars, regVars, coordVars, uiVars, pruneVars, bcastVars>>

\* the background analysis ends with the preview
AnalyzeDone ==
  /\ consStatus = "analyzing"
  /\ consStatus' = "analyzed"
  /\ sameLineConflicts' = analyzeConflicts(agentStatus, diffs)
  /\ UNCHANGED <<agentStatus, diffs>>
  /\ UNCHANGED <<isoVars, msgVars, regVars, coordVars, uiVars, pruneVars, bcastVars>>

\* resolve produces the merge plan
Resolve ==
  /\ consStatus \in {"analyzed", "ready"}
  /\ consStatus' = "ready"
  /\ UNCHANGED <<agentStatus, diffs, sameLineConflicts>>
  /\ UNCHANGED <<isoVars, msgVars, regVars, coordVars, uiVars, pruneVars, bcastVars>>

\* export applies the merge plan: completed iff no file failed
Export(ok) ==
  /\ consStatus = "ready"
  /\ consStatus' = IF ok THEN "completed" ELSE "ready"
  /\ UNCHANGED <<agentStatus, diffs, sameLineConflicts>>
  /\ UNCHANGED <<isoVars, msgVars, regVars, coordVars, uiVars, pruneVars, bcastVars>>

ConsInit ==
  /\ consStatus = "none"
  /\ agentStatus = [i \in Participants |-> "completed"]
  /\ diffs = [i \in Participants |-> {}]
  /\ sameLineConflicts = 0

ConsNext ==
  \/ \E st \in [Participants -> {"completed", "failed"}], d \in [Participants -> DiffInputs] :
       CreateConsolidation(st, d)
  \/ AnalyzeBegin
  \/ AnalyzeDone
  \/ Resolve
  \/ \E ok \in BOOLEAN : Export(ok)

\* =====================================================================
\* Spawn dialog: validateConfig, handleSpawn and the store's spawnAgents
\* =====================================================================
\* a name is blank, usable or longer than 100 characters; a task is blank
\* or usable; the count is any number the config can carry
ConfigInputs ==
  [agentName : {"blank", "ok", "long"}, task : {"blank", "ok"},
   parallelAgents : 0..MaxParallelInput]

getDefaultConfig == [agentName |-> "blank", task |-> "blank", parallelAgents |-> 1]

validateConfig_Eleven(c) ==
  (IF c.agentName \in {"blank", "long"} THEN {"agentName"} ELSE {})
    \cup (IF c.task = "blank" THEN {"task"} ELSE {})
    \cup (IF c.parallelAgents < 1 \/ c.parallelAgents > 11 THEN {"parallelAgents"} ELSE {})

validateConfig(c) ==
  (IF c.agentName \in {"blank", "long"} THEN {"agentName"} ELSE {})
    \cup (IF c.task = "blank" THEN {"task"} ELSE {})
    \cup (IF c.parallelAgents < 1 \/ c.parallelAgents > 10 THEN {"parallelAgents"} ELSE {})

\* handleChange: the form hands over a new config
HandleChange(newConfig) ==
  /\ config' = newConfig
  /\ submitErrors' = {}
  /\ UNCHANGED <<spawnFetches, submits>>
  /\ UNCHANGED <<isoVars, msgVars, regVars, coordVars, consVars, pruneVars, bcastVars>>

\* handleSpawn: validation, then spawnAgents issues one request per agent;
\* anySpawned: at least one request was answered with an agent
HandleSpawn(anySpawned) ==
  /\ submits < MaxSubmits
  /\ submits' = submits + 1
  /\ IF validateConfig(config) # {}
       THEN /\ submitErrors' = validateConfig(config)
            /\ UNCHANGED <<config, spawnFetches>>
       ELSE /\ spawnFetches' = spawnFetches + config.parallelAgents
            /\ IF anySpawned
                 THEN config' = getDefaultConfig /\ submitErrors' = {}
                 ELSE config' = config /\ submitErrors' = {"submit"}
  /\ UNCHANGED <<isoVars, msgVars, regVars, coordVars, consVars, pruneVars, bcastVars>>

UiInit ==
  /\ config = getDefaultConfig
  /\ submitErrors = {}
  /\ spawnFetches = 0
  /\ submits = 0

UiNext ==
  \/ \E newConfig \in ConfigInputs : HandleChange(newConfig)
  \/ \E anySpawned \in BOOLEAN : HandleSpawn(anySpawned)

\* =====================================================================
\* AgentRegistry at its size ceiling: register and cleanupOldAgents
\* =====================================================================
PruneIds == 1..MaxPruneIds

\* this.agents.get(id) for an id without a record
NoRecord == [status |-> "absent", endTime |-> 0]

\* the registry holds records of other ids as well, one fewer than the
\* ceiling, all pending and without endTime
OtherRecords == MAX_REGISTRY_SIZE - 1

\* the instants of the clock: two a millisecond apart, and the same two
\* maxAge later
Instants == <<1, 2, 1 + maxAge, 2 + maxAge>>

\* endTime as normalizeAgentData leaves it: a number above 0, or null (0)
EndTimes == {0} \cup {Instants[i] : i \in 1..Len(Instants)}

Size(recs) == OtherRecords + Cardinality({id \in PruneIds : recs[id] # NoRecord})

\* cleanupOldAgents: the ids it removes
isTerminated(agent) == agent.status \in {"completed", "failed", "terminating"}

cleanupOldAgents(recs, t) ==
  {id \in PruneIds :
     /\ recs[id] # NoRecord
     /\ LET agent == recs[id]
            endTime == IF agent.endTime # 0 THEN agent.endTime ELSE t
            age == t - endTime
        IN  isTerminated(agent) /\ age > maxAge}

\* register: at the ceiling cleanupOldAgents runs first, then the record is
\* stored
RegisterAtCeiling(id, st, endTime) ==
  /\ endTime <= now
  /\ LET toRemove == IF Size(records) >= MAX_REGISTRY_SIZE
                      THEN cleanupOldAgents(records, now) ELSE {}
     IN /\ lastPruned' = toRemove
        /\ records' = [i \in PruneIds |->
                         IF i = id THEN [status |-> st, endTime |-> endTime]
                         ELSE IF i \in toRemove THEN NoRecord ELSE records[i]]
  /\ UNCHANGED now
  /\ UNCHANGED <<isoVars, msgVars, regVars, coordVars, consVars, uiVars, bcastVars>>

\* time passes
ClockTick ==
  /\ \E i \in 1..(Len(Instants) - 1) : now = Instants[i] /\ now' = Instants[i + 1]
  /\ UNCHANGED <<records, lastPruned>>
  /\ UNCHANGED <<isoVars, msgVars, regVars, coordVars, consVars, uiVars, bcastVars>>

PruneInit ==
  /\ records = [id \in PruneIds |-> NoRecord]
  /\ now = Instants[1]
  /\ lastPruned = {}

PruneNext ==
  \/ \E id \in PruneIds, st \in VALID_STATUSES, endTime \in EndTimes :
       RegisterAtCeiling(id, st, endTime)
  \/ ClockTick

\* =====================================================================
\* AgentMessenger.broadcast over the registry's records
\* =====================================================================
BcastIds == 1..MaxBroadcastAgents

\* working-copy paths, as their segments: /w, /w/sub and /v
Worktrees == {<<"w">>, <<"w", "sub">>, <<"v">>}

NoWorker == [worktree |-> <<>>, status |-> "absent"]

\* options.worktree is not given
NoWorktree == <<>>

\* getByWorktree: the records whose resolved path is the given one or lies
\* under it
getByWorktree(normalized) ==
  {id \in BcastIds :
     /\ workers[id] # NoWorker
     /\ LET agentWorktree == workers[id].worktree
        IN  \/ agentWorktree = normalized
            \/ /\ Len(agentWorktree) > Len(normalized)
               /\ SubSeq(agentWorktree, 1, Len(normalized)) = normalized}

getActiveAgents == {id \in BcastIds : workers[id].status = "active"}

\* createMessage(..., { priority, worktree: agent.worktree, ...options }):
\* a worktree among the options replaces the agent's
MessageWorktree(id, worktree) ==
  IF worktree # NoWorktree THEN worktree ELSE workers[id].worktree

\* broadcast: one send per target; full: the targets whose queue is full,
\* whose send throws before anything is queued
Broadcast(worktree, excludeAgentIds, full) ==
  LET found == IF worktree # NoWorktree THEN getByWorktree(worktree) ELSE getActiveAgents
      targetAgents == found \ excludeAgentIds
      messages == targetAgents \ full
  IN  /\ queuedKeys' = {<<MessageWorktree(id, worktree), id, id>> : id \in messages}
      /\ returned' = messages
      /\ UNCHANGED workers
      /\ UNCHANGED <<isoVars, msgVars, regVars, coordVars, consVars, uiVars, pruneVars>>

\* the registry registers or replaces a record
RegisterWorker(id, worktree, st) ==
  /\ workers' = [workers EXCEPT ![id] = [worktree |-> worktree, status |-> st]]
  /\ UNCHANGED <<queuedKeys, returned>>
  /\ UNCHANGED <<isoVars, msgVars, regVars, coordVars, consVars, uiVars, pruneVars>>

BcastInit ==
  /\ workers = [id \in BcastIds |-> NoWorker]
  /\ queuedKeys = {}
  /\ returned = {}

BcastNext ==
  \/ \E id \in BcastIds, worktree \in Worktrees, st \in {"pending", "active", "completed"} :
       RegisterWorker(id, worktree, st)
  \/ \E worktree \in Worktrees \cup {NoWorktree}, excludeAgentIds, full \in SUBSET BcastIds :
       Broadcast(worktree, excludeAgentIds, full)

\* ---------------------------------------------------------------------
\* The bus next to its queue capacity
\* ---------------------------------------------------------------------
CapIds == 1..(MAX_QUEUE_SIZE + 2)

\* the bus after MAX_QUEUE_SIZE - 1 sends of NORMAL priority to one worker,
\* each past its persistMessage, while the delivery of the first message is
\* awaited
CapInit ==
  /\ queueOrder = <<"default:a1">>
  /\ queues = [k \in QueueKeys |->
                IF k = "default:a1" THEN [i \in 1..(MAX_QUEUE_SIZE - 1) |-> i] ELSE <<>>]
  /\ status = [m \in CapIds |-> IF m < MAX_QUEUE_SIZE THEN PENDING ELSE "none"]
  /\ retryCount = [m \in CapIds |-> 0]
  /\ priority = [m \in CapIds |-> NORMAL]
  /\ qkey = [m \in CapIds |-> "default:a1"]
  /\ file = [m \in CapIds |->
              IF m < MAX_QUEUE_SIZE THEN Snapshot(PENDING, 0) ELSE NoFile]
  /\ retryTimers = {}
  /\ isProcessing = TRUE
  /\ pc = "sending"
  /\ cur = 1
  /\ iterIdx = 1
  /\ processed = FALSE
  /\ sendsInFlight = {}
  /\ marks = [m \in CapIds |-> "none"]
  /\ nextMsg = MAX_QUEUE_SIZE
  /\ markCalls = 0
  /\ restarts = 0
  /\ attempts = [m \in CapIds |-> IF m = 1 THEN 1 ELSE 0]
  /\ okAttempts = {}
  /\ failedEvents = [m \in CapIds |-> 0]
  /\ orphans = 0

\* the files in the order of their message ids, one order readdir can give
InIdOrder == SelectSeq([m \in DOMAIN file |-> m], IsLoaded)

\* a few more sends, one successful delivery, a restart
CapNext ==
  \/ \E k \in QueueKeys, p \in SendPriorities : nextMsg \in CapIds /\ Send(k, p)
  \/ \E m \in CapIds : SendResume(m)
  \/ Cardinality(okAttempts) < MaxCapDeliveries /\ DeliverResult("delivered")
  \/ DeliverDelete
  \/ DeliverDone
  \/ restarts < MaxRestarts /\ RestartWith(InIdOrder)

Init == IsoInit /\ MsgInit /\ RegInit /\ CoordInit /\ ConsInit /\ UiInit /\ PruneInit /\ BcastInit

SpecIso == Init /\ [][IsoNext]_vars

SpecSup == Init /\ [][SupNext]_vars

SpecIo == Init /\ [][IoNext]_vars

SpecCoord == Init /\ [][CoordNext]_vars

SpecCons == Init /\ [][ConsNext]_vars

SpecUi == Init /\ [][UiNext]_vars

SpecPrune == Init /\ [][PruneNext]_vars

SpecBcast == Init /\ [][BcastNext]_vars

SpecMsg == Init /\ [][MsgNext]_vars

SpecMsgRestart == Init /\ [][MsgRestartNext]_vars

SpecClear == Init /\ [][ClearNext]_vars

\* a bus one message short of a full queue, its first delivery awaited
InitCap == IsoInit /\ CapInit /\ RegInit /\ CoordInit /\ ConsInit /\ UiInit /\ PruneInit /\ BcastInit

SpecCap == InitCap /\ [][CapNext]_vars

SpecReg == Init /\ [][RegNext]_vars

SpecRegStop == Init /\ [][RegStopNext]_vars

\* the bus without out-of-band markDelivered/markFailed calls
MsgSelfNext ==
  \/ \E k \in QueueKeys, p \in SendPriorities : nextMsg <= MaxMsgs /\ Send(k, p)
  \/ \E m \in MsgIds : SendResume(m)
  \/ StartProcessing
  \/ \E o \in Outcomes : DeliverResult(o)
  \/ DeliverErrorResume
  \/ DeliverDelete
  \/ DeliverDone
  \/ FailDone
  \/ RetryBreak
  \/ \E m \in MsgIds : TimerFire(m)

\* the scheduling the event loop guarantees: a resolved await resumes, an
\* armed timer fires; nothing obliges a caller to call send or
\* startProcessing again
MsgFairness ==
  /\ WF_vars(\E m \in MsgIds : SendResume(m))
  /\ WF_vars(\E o \in Outcomes : DeliverResult(o))
  /\ WF_vars(DeliverErrorResume)
  /\ WF_vars(DeliverDelete)
  /\ WF_vars(DeliverDone)
  /\ WF_vars(FailDone)
  /\ WF_vars(RetryBreak)
  /\ WF_vars(\E m \in MsgIds : TimerFire(m))

LiveSpecMsg == Init /\ [][MsgSelfNext]_vars /\ MsgFairness

\* C1: the number of workers tracked as active never exceeds 10
\* (MAX_CONCURRENT_AGENTS), under every interleaving of concurrent
\* spawnAgentInIsolation calls and child exits.
CE_C1_ActiveWithinCap == Cardinality(activeProcesses) <= MAX_CONCURRENT_AGENTS


\* ---------------------------------------------------------------------
\* Worker supervisor: claims
\* ---------------------------------------------------------------------

CE_C14_OneFinalStatus ==
  \A a \in AgentIds :
    (exitEvent[a] # "none" \/ errorEvents[a] > 0) =>
      /\ completeCalls[a] + failCalls[a] = 1
      /\ completeCalls[a] = 1 <=> exitEvent[a] = "zero"

\* C15: a spawn attempted while 10 workers are active is rejected with the
\* capacity error and changes nothing else: no worktree is requested, no
\* agent id is handed out (no agent:spawning event), no handle, timer or
\* monitor is added; and the capacity error is raised only at capacity.
T_C15_RejectedSpawnChangesNothing ==
  [][/\ (/\ Cardinality(activeProcesses) >= MAX_CONCURRENT_AGENTS
         /\ (capacityErrors' # capacityErrors \/ awaitingWorktree' > awaitingWorktree))
        => /\ capacityErrors' = capacityErrors + 1
           /\ UNCHANGED <<awaitingWorktree, nextAgent, starting, procVars>>
     /\ capacityErrors' # capacityErrors
        => Cardinality(activeProcesses) >= MAX_CONCURRENT_AGENTS]_vars

W_C15_RejectedSpawnChangesNothing ==
  /\ capacityErrors > 0
  /\ Cardinality(activeProcesses) = MAX_CONCURRENT_AGENTS
  /\ awaitingWorktree = 0
  /\ nextAgent = MAX_CONCURRENT_AGENTS

\* C18: at each sample of a tracked worker the monitor asks for its
\* termination if and only if memory was measured and the measured value
\* (memoryMB as getProcessStats reports it) is strictly greater than 512 MB;
\* a sample whose read failed never asks for termination.
T_C18_TerminateIffOverLimit ==
  [][\A a \in AgentIds, inp \in StatInputs :
       SampleResult(a, inp) =>
         LET asked == /\ <<a, MEMORY_LIMIT_EXCEEDED>> \in termInFlight'
                      /\ <<a, MEMORY_LIMIT_EXCEEDED>> \notin termInFlight
             over  == Measured(inp) /\ getProcessStats(inp) > 512 * 100
         IN  /\ asked => over
             /\ (a \in activeProcesses /\ over) => asked
             /\ ~Measured(inp) => termInFlight' = termInFlight]_vars

W_C18_TerminateIffOverLimit ==
  \E a \in AgentIds :
    /\ <<a, MEMORY_LIMIT_EXCEEDED>> \in termInFlight
    /\ a \in activeProcesses

\* C19: when the wall-clock timer of a worker fires, its process has neither
\* exited nor errored and the worktree service is asked to terminate it;
\* once the process has exited or errored the timer is cancelled, so no
\* timeout event and no timeout termination occurs for that worker.
T_C19_TimeoutOnlyWhileRunning ==
  [][\A a \in AgentIds :
       /\ (exitEvent[a] # "none" \/ errorEvents[a] > 0) => a \notin timeoutHandles
       /\ TimeoutFire(a) =>
            /\ exitEvent[a] = "none" /\ errorEvents[a] = 0
            /\ <<a, TIMEOUT>> \in termInFlight']_vars

W_C19_TimeoutOnlyWhileRunning ==
  \E a \in AgentIds :
    /\ <<a, TIMEOUT>> \in termInFlight
    /\ a \notin timeoutHandles
    /\ exitEvent[a] = "none"

\* C20: when cleanupAll returns, every worker that was active at its start
\* has been sent a termination request with reason shutdown, activeProcesses
\* and resourceMonitors are empty, and the returned count is the number of
\* workers that were active.
CE_C20_CleanupLeavesNothing ==
  [][(cleanupPc # "done" /\ cleanupPc' = "done") =>
       /\ cleanupIds' \subseteq shutdownRequested'
       /\ activeProcesses' = {}
       /\ resourceMonitors' = {}
       /\ cleaned' = Cardinality(cleanupIds')]_vars

CE_C25_OneLineIffUsableStdin ==
  [][\A a \in AgentIds, payload \in Payloads :
       SendToAgent(a, payload) =>
         IF a \in activeProcesses /\ stdin[a] = "open"
         THEN /\ stdinLines'[a] = stdinLines[a] + 1
              /\ messageSent'[a] = messageSent[a] + 1
              /\ sendErrors' = sendErrors
         ELSE /\ stdinLines' = stdinLines
              /\ messageSent' = messageSent
              /\ <<a, IF a \in activeProcesses THEN "has no stdin stream" ELSE "not found">>
                   \in sendErrors']_vars

\* C21: whenever spawnAgentInIsolation fails, at worktree creation or at
\* process start, the failure is recorded through a failAgent call and the
\* process handles, timers and monitors are what they were before.
CE_C21_SpawnFailureMarksFailed ==
  [][(WorktreeFailed \/ \E a \in AgentIds : ProcessStartFailed(a))
       => /\ \E a \in AgentIds : failCalls'[a] = failCalls[a] + 1
          /\ UNCHANGED procVars]_vars

\* ---------------------------------------------------------------------
\* Registry persistence: claims
\* ---------------------------------------------------------------------

\* a register, update or unregister call
Mutation ==
  \E id \in RegIds :
    \/ \E st \in StatusInputs : Register(id, st) \/ Update(id, st)
    \/ Unregister(id)

\* C11: whenever the registry is quiescent (no background write in flight,
\* and none has failed) reloading the registry file yields exactly the
\* in-memory map; so a mutation made while a write was in flight has reached
\* the file as well.
CE_C11_FileMatchesMapWhenQuiescent ==
  (persistPc = "idle" /\ ~isDirty) => LoadFromDisk(registryFile) = agents

\* C12: after a background write has failed (no write in flight, the map
\* still dirty), the next register, update or unregister starts a new write.
CE_C12_MutationRetriesFailedWrite ==
  [][(persistPc = "idle" /\ isDirty /\ Mutation) => persistPc' = "awaitLock"]_vars

\* ---------------------------------------------------------------------
\* Message bus: capacity and rehydration
\* ---------------------------------------------------------------------

\* C16: no queue ever holds more than 1000 (MAX_QUEUE_SIZE) messages.
CE_C16_QueueWithinCapacity ==
  \A k \in QueueKeys : Len(queues[k]) <= MAX_QUEUE_SIZE

\* C17: a restart of the idle bus puts into the queues exactly the messages
\* whose file says pending or retrying, each under its queue key, and
\* removes the files of delivered and failed messages; the queues it
\* builds equal the queues before the shutdown.
CE_C17_RestartRestoresQueues ==
  [][(/\ restarts' = restarts + 1
      /\ pc = "idle" /\ sendsInFlight = {}
      /\ \A m \in MsgIds : marks[m] = "none")
     => /\ \A m \in MsgIds, k \in QueueKeys :
             (\E i \in 1..Len(queues'[k]) : queues'[k][i] = m)
               <=> (NonTerminal(file[m].status) /\ qkey[m] = k)
        /\ \A m \in MsgIds : Terminal(file[m].status) => file'[m] = NoFile
        /\ queues' = queues]_vars

\* ---------------------------------------------------------------------
\* Message bus: auxiliary predicates of the claims
\* ---------------------------------------------------------------------
\* messages that leave their queue in a step
Removed == {m \in MsgIds : InQueue(m) /\ ~InQueue(m)'}

\* a terminal transition of m is under way: processQueue or
\* markDelivered/markFailed has set the status and has not finished
InTransition(m) ==
  \/ pc \in {"dlvPersisted", "dlvDeleted", "failPersisted"} /\ cur = m
  \/ marks[m] # "none"

\* o is ordered before m: smaller priority value, or the same priority and
\* enqueued earlier (ids are handed out in enqueue order)
Before(o, m) ==
  \/ priority[o] < priority[m]
  \/ priority[o] = priority[m] /\ o < m

QueueSorted(q) == \A i, j \in 1..Len(q) : i < j => Before(q[i], q[j])

\* a delivery attempt for m starts in this step
AttemptStarts(m) == attempts'[m] = attempts[m] + 1

\* queues behind the iterator whose head is awaiting delivery
LaterLiveQueues ==
  {i \in (iterIdx + 1)..Len(queueOrder) :
     /\ queues[queueOrder[i]] # <<>>
     /\ NonTerminal(status[Head(queues[queueOrder[i]])])}

\* C2: no message leaves a queue while its status is pending or retrying,
\* and the step that finishes the attempt on the head message m (success,
\* or failure at the retry ceiling) removes m from the queue.
CE_C2_DrainRemovesAttempted ==
  [][/\ \A m \in Removed : Terminal(status[m])
     /\ (pc \in {"dlvDeleted", "failPersisted"} /\ pc' # pc) => cur \in Removed]_vars

\* C3: every message accepted by send() eventually reaches status
\* delivered or failed, with timers firing and no further send() needed.
CE_C3_EventuallyTerminal ==
  \A m \in MsgIds : (m \in sendsInFlight) ~> Terminal(status[m])

\* C4: every message queue is ordered by ascending priority value and,
\* among equal priorities, by enqueue order.
CE_C4_QueuesSorted == \A k \in QueueKeys : QueueSorted(queues[k])

\* C5: whenever a delivery attempt starts for a message m, no other
\* non-terminal message of its queue is ordered before m.
CE_C5_AttemptsInOrder ==
  [][\A m \in MsgIds :
       AttemptStarts(m) =>
         \A i \in 1..Len(queues'[qkey[m]]) :
           LET o == queues'[qkey[m]][i]
           IN (o # m /\ NonTerminal(status'[o])) => ~Before(o, m)]_vars

\* C6: a message whose status is delivered or failed, the transition
\* having completed, has no persisted file.
CE_C6_TerminalHasNoFile ==
  \A m \in MsgIds :
    (Terminal(status[m]) /\ ~InTransition(m)) => file[m] = NoFile

\* C7: a message whose status is delivered or failed, the transition
\* having completed, is contained in no queue.
CE_C7_TerminalNotQueued ==
  \A m \in MsgIds :
    (Terminal(status[m]) /\ ~InTransition(m)) => ~InQueue(m)

CE_C9_RetryDoesNotBlock ==
  [][(pc = "retryPersisted" /\ pc' # pc) => LaterLiveQueues = {}]_vars

\* ---------------------------------------------------------------------
\* Registry: auxiliary definitions of the claims
\* ---------------------------------------------------------------------
\* position of a status on pending -> active -> terminating -> completed | failed
Rank(st) ==
  CASE st = "pending" -> 0
    [] st = "active" -> 1
    [] st = "terminating" -> 2
    [] OTHER -> 3

\* C22: after register(r) a query by r.id returns the record, and after
\* unregister(r.id) a query by r.id returns absent.
CE_C22_RegisterThenQuery ==
  [][\A raw \in RawIds :
       /\ \A st \in VALID_STATUSES : RegisterCall(raw, st) => Get(raw)' = st
       /\ (Get(raw) # Absent /\ Unregister(Trim(raw))) => Get(raw)' = Absent]_vars

\* C23: an updated or transition event for an id is only emitted after a
\* registered event for that id, records loaded from disk included, and the
\* old status a transition event names is the status carried by the latest
\* earlier event for that id.
CE_C23_EventsInTransitionOrder ==
  [][\A id \in RegIds, st \in StatusInputs :
       /\ Update(id, st) =>
            /\ id \in registeredEvents
            /\ agents'[id] # agents[id] => lastEvent[id] = agents[id]
       /\ (Register(id, st) /\ agents[id] \notin {Absent, st}) =>
            lastEvent[id] = agents[id]]_vars

\* ---------------------------------------------------------------------
\* Coordinator: claims
\* ---------------------------------------------------------------------

\* C26: a barrier resolves with success only if every expected worker has
\* arrived, and with timeout only if some expected worker has not arrived
\* when the deadline passes; once it has resolved, later signals do not
\* change the outcome.
T_C26_BarrierOutcome ==
  [][/\ (barrier = "waiting" /\ barrier' = "complete") => expected \subseteq arrived'
     /\ (barrier = "waiting" /\ barrier' = "timeout") => ~(expected \subseteq arrived)
     /\ barrier \in {"complete", "timeout"} => barrier' = barrier]_vars

W_C26_BarrierOutcome ==
  /\ barrier = "timeout"
  /\ expected \subseteq arrived
  /\ Cardinality(expected) > 1

\* C27: the winner of a completed election is a candidate with the maximum
\* number of recorded votes, and among the candidates tied for the maximum
\* it is the one whose id comes first in lexicographic order
\* ("agent-1" < "agent-10" < "agent-2").
T_C27_WinnerByPlurality ==
  LET order == [w \in Workers |-> IF w = <<1>> THEN 1 ELSE IF w = <<1, 0>> THEN 2 ELSE 3]
  IN  election = "completed" =>
        /\ winner \in candidates
        /\ \A c \in candidates :
             /\ Tally(c) <= Tally(winner)
             /\ (Tally(c) = Tally(winner) /\ c # winner) => order[winner] < order[c]

W_C27_WinnerByPlurality ==
  /\ election = "completed"
  /\ winner = <<1, 0>>
  /\ Tally(<<1, 0>>) = 1
  /\ <<2>> \in candidates /\ Tally(<<2>>) = 1

\* C28: each voter has at most one recorded vote: a castVote by a voter
\* that has a recorded vote is rejected and leaves the recorded votes
\* unchanged.
T_C28_OneVotePerVoter ==
  [][\A v, c \in Workers :
       (CastVote(v, c) /\ votes[v] # NoVote) => (votes' = votes /\ v \in rejected')]_vars

W_C28_OneVotePerVoter ==
  \E v \in Workers : v \in rejected /\ votes[v] # NoVote

\* ---------------------------------------------------------------------
\* Consolidation: claims
\* ---------------------------------------------------------------------

CE_C30_SameFileRangesIntersect ==
  LET first(h) == h.oldStart
      last(h) == h.oldStart + (IF h.oldLines = <<>> THEN 1 ELSE h.oldLines[1]) - 1
      lines(h) == first(h)..last(h)
  IN  consStatus = "analyzed" =>
        sameLineConflicts =
          Cardinality({t \in Participants \X Participants \X HunkHeaders \X HunkHeaders :
                         /\ t[1] < t[2]
                         /\ agentStatus[t[1]] = "completed" /\ agentStatus[t[2]] = "completed"
                         /\ t[3] \in diffs[t[1]] /\ t[4] \in diffs[t[2]]
                         /\ t[3].file = t[4].file
                         /\ lines(t[3]) \cap lines(t[4]) # {}})

\* C10: the status of a registered worker only moves forward: it never
\* leaves completed or failed and never returns to an earlier status.
CE_C10_StatusMonotone ==
  [][\A id \in RegIds :
       (agents[id] # Absent /\ agents'[id] # Absent) =>
         /\ Rank(agents'[id]) >= Rank(agents[id])
         /\ agents[id] \in {"completed", "failed"} => agents'[id] = agents[id]]_vars


\* ---------------------------------------------------------------------
\* Spawn dialog: claims
\* ---------------------------------------------------------------------

\* C31: a spawn request whose agent count is below 1 or above 10 is
\* rejected with a validation error on the count and no spawn request is
\* issued for any of its agents.
T_C31_CountOutOfRangeRejected ==
  [][\A anySpawned \in BOOLEAN :
       (HandleSpawn(anySpawned) /\ (config.parallelAgents < 1 \/ config.parallelAgents > 10))
         => /\ "parallelAgents" \in submitErrors'
            /\ spawnFetches' = spawnFetches]_vars

W_C31_CountOutOfRangeRejected ==
  /\ submits > 0
  /\ config.parallelAgents > 10
  /\ "parallelAgents" \in submitErrors
  /\ spawnFetches = 0

\* ---------------------------------------------------------------------
\* AgentMessenger: statuses, drain loop, reports
\* ---------------------------------------------------------------------

\* C32: a message whose status is delivered or failed is never set back to
\* pending or retrying, neither by a retry timer that fires later nor by a
\* delivery attempt that was in flight when markDelivered / markFailed ran.
CE_C32_TerminalStatusFinal ==
  [][\A m \in MsgIds : Terminal(status[m]) => status'[m] \notin {PENDING, RETRYING}]_vars

\* C33: a message in status retrying is not attempted again before its
\* retry timer has fired: no delivery attempt starts on a message whose
\* status is retrying or whose timer is armed.
CE_C33_NoAttemptBeforeTimer ==
  [][\A m \in MsgIds :
       attempts'[m] > attempts[m] => (status[m] # RETRYING /\ m \notin retryTimers)]_vars

\* C34: at most one drain loop (processQueue activation) is running at any
\* time, under every interleaving of send, startProcessing and
\* clearAllQueues.
CE_C34_OneDrainLoop == Activations <= 1

\* ---------------------------------------------------------------------
\* Isolation: what an exit leaves behind
\* ---------------------------------------------------------------------

\* C35: after a child's exit has been handled the worker has no process
\* handle, no resource monitor and no armed wall-clock timer; and at every
\* instant each resource monitor belongs to a worker that still has a
\* process handle.
T_C35_ExitLeavesNothing ==
  /\ \A a \in AgentIds :
       exitEvent[a] # "none" =>
         (a \notin activeProcesses /\ a \notin resourceMonitors /\ a \notin timeoutHandles)
  /\ resourceMonitors \subseteq activeProcesses

W_C35_ExitLeavesNothing ==
  \E a \in AgentIds : exitEvent[a] # "none" /\ a \in spawned /\ a \in sampling

\* ---------------------------------------------------------------------
\* AgentRegistry: pruning, the registry file
\* ---------------------------------------------------------------------

\* C36: pruning, run by register when the registry holds 1000 or more
\* records, removes exactly the records in status completed or failed whose
\* completion time is more than 24 hours old, a record with no completion
\* time counting as completed now; it never removes a pending or active
\* record.
CE_C36_PrunesOldTerminalOnly ==
  [][\A id \in PruneIds, st \in VALID_STATUSES, endTime \in EndTimes :
       (RegisterAtCeiling(id, st, endTime) /\ Size(records) >= MAX_REGISTRY_SIZE)
         => lastPruned' =
              {i \in PruneIds :
                 /\ records[i] # NoRecord
                 /\ records[i].status \in {"completed", "failed"}
                 /\ records[i].endTime # 0
                 /\ now - records[i].endTime > maxAge}]_vars

\* C37: the registry file observed at any instant, including after the
\* process stopped in the middle of a write, holds a complete JSON array
\* that is either the previous or the new snapshot.
CE_C37_FileAlwaysComplete == registryFile # Truncated

\* ---------------------------------------------------------------------
\* AgentMessenger: broadcast
\* ---------------------------------------------------------------------

\* C38: broadcast queues exactly one message for each candidate worker (all
\* active workers, or the workers of the given worktree) that is not
\* excluded and whose send does not fail, each addressed to that worker and
\* queued under the worker's own (worktree, id) key, and returns exactly
\* the messages that were queued.
CE_C38_BroadcastOwnKeys ==
  [][\A worktree \in Worktrees \cup {NoWorktree}, excludeAgentIds, full \in SUBSET BcastIds :
       Broadcast(worktree, excludeAgentIds, full) =>
         LET addressed == IF worktree = NoWorktree
                           THEN {id \in BcastIds : workers[id].status = "active"}
                           ELSE getByWorktree(worktree)
             targets == (addressed \ excludeAgentIds) \ full
         IN  /\ queuedKeys' = {<<workers[id].worktree, id, id>> : id \in targets}
             /\ returned' = targets]_vars

\* ---------------------------------------------------------------------
\* AgentMessenger: the global queue report
\* ---------------------------------------------------------------------

\* C39: in the global queue report totalMessages is the sum of all queue
\* lengths, and pendingMessages, retryingMessages and failedMessages are the
\* numbers of queued messages currently in status pending, retrying and
\* failed.
CE_C39_ReportCountsByStatus ==
  LET InStatus(st) ==
        Cardinality(UNION {{<<k, i>> : i \in {j \in 1..Len(queues[k]) : status[queues[k][j]] = st}}
                             : k \in QueueKeys})
      len == [k \in QueueKeys |-> Len(queues[k])]
  IN  /\ getAllQueueStatus.totalMessages = len["default:a1"] + len["default:a2"]
      /\ getAllQueueStatus.pendingMessages = InStatus(PENDING)
      /\ getAllQueueStatus.retryingMessages = InStatus(RETRYING)
      /\ getAllQueueStatus.failedMessages = InStatus(FAILED)

====
